---- MODULE Spec2Model ----
(***************************************************************************)
(* Termination criteria of pylearn2 (pylearn2/termination_criteria), as a  *)
(* state machine: a heap of criterion objects, the model object with its   *)
(* monitors, and the calls a training algorithm makes to continue_learning.*)
(*                                                                         *)
(* Floats are modelled exactly: a finite float is a rational n/d, next to  *)
(* inf, -inf and nan, with IEEE comparison rules.  Rounding of the product *)
(* (1. - prop_decrease) * best_value is not modelled.                      *)
(***************************************************************************)
EXTENDS Integers, Sequences, FiniteSets, TLC

\* ------------------------------------------------------------------ floats

Fin(i) == [k |-> "fin", n |-> i, d |-> 1]
Frac(i, j) == [k |-> "fin", n |-> i, d |-> j]
inf == [k |-> "inf", n |-> 0, d |-> 1]
neg_inf == [k |-> "-inf", n |-> 0, d |-> 1]
nan == [k |-> "nan", n |-> 0, d |-> 1]
\* Python's None where a float is expected (MatchChannel.target)
None == [k |-> "None", n |-> 0, d |-> 1]

FSign(a) ==
    IF a.k = "inf" THEN 1
    ELSE IF a.k = "-inf" THEN -1
    ELSE IF a.n > 0 THEN 1 ELSE IF a.n < 0 THEN -1 ELSE 0

FNeg(a) ==
    IF a.k = "inf" THEN neg_inf
    ELSE IF a.k = "-inf" THEN inf
    ELSE IF a.k = "nan" THEN nan
    ELSE Frac(-a.n, a.d)

FAdd(a, b) ==
    IF a.k = "nan" \/ b.k = "nan" THEN nan
    ELSE IF a.k = "fin" /\ b.k = "fin" THEN Frac(a.n * b.d + b.n * a.d, a.d * b.d)
    ELSE IF a.k = "fin" THEN b
    ELSE IF b.k = "fin" THEN a
    ELSE IF a.k = b.k THEN a ELSE nan

FSub(a, b) == FAdd(a, FNeg(b))

FMul(a, b) ==
    IF a.k = "nan" \/ b.k = "nan" THEN nan
    ELSE IF a.k = "fin" /\ b.k = "fin" THEN Frac(a.n * b.n, a.d * b.d)
    ELSE IF FSign(a) * FSign(b) > 0 THEN inf
    ELSE IF FSign(a) * FSign(b) < 0 THEN neg_inf
    ELSE nan

\* a < b on floats: false as soon as one side is nan
FLt(a, b) ==
    IF a.k = "nan" \/ b.k = "nan" THEN FALSE
    ELSE IF a.k = "inf" \/ b.k = "-inf" THEN FALSE
    ELSE IF a.k = "-inf" \/ b.k = "inf" THEN TRUE
    ELSE a.n * b.d < b.n * a.d

FGt(a, b) == FLt(b, a)

isinf(a) == a.k \in {"inf", "-inf"}

\* float(x) of an int argument
float(x) == Fin(x)

PyBool(b) == IF b THEN "True" ELSE "False"

\* ------------------------------------------------------------------- state

VARIABLES
    criteria,   \* the criterion objects: id -> the object's fields
    root,       \* id of the criterion the training algorithm calls
    model,      \* the model's attributes: monitor, and monitors of previous runs
    hist,       \* history: id -> the invocations of that object, in order
    last        \* history: the log of the latest top-level call

vars == <<criteria, root, model, hist, last>>

\* ------------------------------------------------------------ constructors

EpochCounter(max_epochs) ==
    [cls |-> "EpochCounter", _max_epochs |-> max_epochs, _epochs_done |-> 0]

MonitorBased(prop_decrease, N, channel_name) ==
    [cls |-> "MonitorBased", _channel_name |-> channel_name,
     prop_decrease |-> prop_decrease, N |-> N, countdown |-> N,
     best_value |-> inf]

MatchChannel(channel_name, prev_channel_name, prev_monitor_name) ==
    [cls |-> "MatchChannel", channel_name |-> channel_name,
     prev_channel_name |-> prev_channel_name,
     prev_monitor_name |-> prev_monitor_name, target |-> None]

ChannelTarget(channel_name, target) ==
    [cls |-> "ChannelTarget", channel_name |-> channel_name,
     target |-> float(target)]

ChannelInf(channel_name) ==
    [cls |-> "ChannelInf", channel_name |-> channel_name]

And(children) == [cls |-> "And", _criteria |-> children]

Or(children) == [cls |-> "Or", _criteria |-> children]

\* ------------------------------------------------------- continue_learning
\* Every continue_learning operator takes the heap, the id of self and the
\* model, and yields the heap after the call, what the call returned
\* ("True", "False") or raised (the exception's name), and the log of the
\* invocations made, each with the channel value it read.

Entry(self, rval, v) == [id |-> self, rval |-> rval, v |-> v]

Outcome(crit, self, rval, v) ==
    [criteria |-> crit, rval |-> rval, log |-> <<Entry(self, rval, v)>>]

Returned(r) == r \in {"True", "False"}

\* faulty variant: the comparison of line 230 as <=
EpochCounter_continue_learning_le(crit, self, mdl) ==
    LET done == crit[self]._epochs_done + 1
    IN  Outcome([crit EXCEPT ![self]._epochs_done = done], self,
                PyBool(done <= crit[self]._max_epochs), None)

\* faulty variant: the comparison of line 230 as !=
EpochCounter_continue_learning_ne(crit, self, mdl) ==
    LET done == crit[self]._epochs_done + 1
    IN  Outcome([crit EXCEPT ![self]._epochs_done = done], self,
                PyBool(done # crit[self]._max_epochs), None)

EpochCounter_continue_learning(crit, self, mdl) ==
    LET done == crit[self]._epochs_done + 1
    IN  Outcome([crit EXCEPT ![self]._epochs_done = done], self,
                PyBool(done < crit[self]._max_epochs), None)

\* faulty variant: the comparison of line 106 as <=
MonitorBased_continue_learning_le(crit, self, mdl) ==
    LET obj == crit[self]
        channels == mdl.monitor.channels
        name == IF obj._channel_name = "None" THEN "objective"
                ELSE obj._channel_name
    IN  IF name \notin DOMAIN channels
        THEN Outcome(crit, self, "KeyError", None)
        ELSE LET v == channels[name].val_record
             IN  IF Len(v) = 0
                 THEN Outcome(crit, self, "IndexError", None)
                 ELSE LET countdown ==
                              IF ~FGt(v[Len(v)],
                                      FMul(FSub(Fin(1), obj.prop_decrease),
                                           obj.best_value))
                              THEN obj.N
                              ELSE obj.countdown - 1
                          best_value ==
                              IF FLt(v[Len(v)], obj.best_value)
                              THEN v[Len(v)]
                              ELSE obj.best_value
                      IN  Outcome([crit EXCEPT ![self].countdown = countdown,
                                               ![self].best_value = best_value],
                                  self, PyBool(countdown > 0), v[Len(v)])

\* faulty variant: the comparison of line 106 as >
MonitorBased_continue_learning_gt(crit, self, mdl) ==
    LET obj == crit[self]
        channels == mdl.monitor.channels
        name == IF obj._channel_name = "None" THEN "objective"
                ELSE obj._channel_name
    IN  IF name \notin DOMAIN channels
        THEN Outcome(crit, self, "KeyError", None)
        ELSE LET v == channels[name].val_record
             IN  IF Len(v) = 0
                 THEN Outcome(crit, self, "IndexError", None)
                 ELSE LET countdown ==
                              IF FGt(v[Len(v)],
                                     FMul(FSub(Fin(1), obj.prop_decrease),
                                          obj.best_value))
                              THEN obj.N
                              ELSE obj.countdown - 1
                          best_value ==
                              IF FLt(v[Len(v)], obj.best_value)
                              THEN v[Len(v)]
                              ELSE obj.best_value
                      IN  Outcome([crit EXCEPT ![self].countdown = countdown,
                                               ![self].best_value = best_value],
                                  self, PyBool(countdown > 0), v[Len(v)])

\* faulty variant: the countdown is decremented before the value is read
MonitorBased_continue_learning_early(crit, self, mdl) ==
    LET obj == crit[self]
        channels == mdl.monitor.channels
        name == IF obj._channel_name = "None" THEN "objective"
                ELSE obj._channel_name
    IN  IF name \notin DOMAIN channels
        THEN Outcome(crit, self, "KeyError", None)
        ELSE LET v == channels[name].val_record
             IN  IF Len(v) = 0
                 THEN Outcome([crit EXCEPT ![self].countdown = @ - 1],
                              self, "IndexError", None)
                 ELSE LET countdown ==
                              IF FLt(v[Len(v)],
                                     FMul(FSub(Fin(1), obj.prop_decrease),
                                          obj.best_value))
                              THEN obj.N
                              ELSE obj.countdown - 1
                          best_value ==
                              IF FLt(v[Len(v)], obj.best_value)
                              THEN v[Len(v)]
                              ELSE obj.best_value
                      IN  Outcome([crit EXCEPT ![self].countdown = countdown,
                                               ![self].best_value = best_value],
                                  self, PyBool(countdown > 0), v[Len(v)])

\* faulty variant: best_value is updated only when the countdown is reset
MonitorBased_continue_learning_elif(crit, self, mdl) ==
    LET obj == crit[self]
        channels == mdl.monitor.channels
        name == IF obj._channel_name = "None" THEN "objective"
                ELSE obj._channel_name
    IN  IF name \notin DOMAIN channels
        THEN Outcome(crit, self, "KeyError", None)
        ELSE LET v == channels[name].val_record
             IN  IF Len(v) = 0
                 THEN Outcome(crit, self, "IndexError", None)
                 ELSE LET reset ==
                              FLt(v[Len(v)],
                                  FMul(FSub(Fin(1), obj.prop_decrease),
                                       obj.best_value))
                          countdown ==
                              IF reset THEN obj.N ELSE obj.countdown - 1
                          best_value ==
                              IF reset /\ FLt(v[Len(v)], obj.best_value)
                              THEN v[Len(v)]
                              ELSE obj.best_value
                      IN  Outcome([crit EXCEPT ![self].countdown = countdown,
                                               ![self].best_value = best_value],
                                  self, PyBool(countdown > 0), v[Len(v)])

MonitorBased_continue_learning(crit, self, mdl) ==
    LET obj == crit[self]
        channels == mdl.monitor.channels
        name == IF obj._channel_name = "None" THEN "objective"
                ELSE obj._channel_name
    IN  IF name \notin DOMAIN channels
        THEN Outcome(crit, self, "KeyError", None)
        ELSE LET v == channels[name].val_record
             IN  IF Len(v) = 0
                 THEN Outcome(crit, self, "IndexError", None)
                 ELSE LET countdown ==
                              IF FLt(v[Len(v)],
                                     FMul(FSub(Fin(1), obj.prop_decrease),
                                          obj.best_value))
                              THEN obj.N
                              ELSE obj.countdown - 1
                          best_value ==
                              IF FLt(v[Len(v)], obj.best_value)
                              THEN v[Len(v)]
                              ELSE obj.best_value
                      IN  Outcome([crit EXCEPT ![self].countdown = countdown,
                                               ![self].best_value = best_value],
                                  self, PyBool(countdown > 0), v[Len(v)])

\* faulty variant: the target is looked up on every call, cached or not
MatchChannel_resolve_always(obj, mdl) ==
    IF obj.prev_monitor_name \notin DOMAIN mdl
    THEN [target |-> obj.target, raised |-> "AttributeError"]
    ELSE LET channels == mdl[obj.prev_monitor_name].channels
         IN  IF obj.prev_channel_name \notin DOMAIN channels
             THEN [target |-> obj.target, raised |-> "KeyError"]
             ELSE LET rec == channels[obj.prev_channel_name].val_record
                  IN  IF Len(rec) = 0
                      THEN [target |-> obj.target, raised |-> "IndexError"]
                      ELSE [target |-> rec[Len(rec)], raised |-> "None"]

\* lines 145-149: the target of a MatchChannel after the lookup of the
\* previous run's channel, or the exception the lookup raises
MatchChannel_resolve(obj, mdl) ==
    IF obj.target # None THEN [target |-> obj.target, raised |-> "None"]
    ELSE IF obj.prev_monitor_name \notin DOMAIN mdl
    THEN [target |-> None, raised |-> "AttributeError"]
    ELSE LET channels == mdl[obj.prev_monitor_name].channels
         IN  IF obj.prev_channel_name \notin DOMAIN channels
             THEN [target |-> None, raised |-> "KeyError"]
             ELSE LET rec == channels[obj.prev_channel_name].val_record
                  IN  IF Len(rec) = 0
                      THEN [target |-> None, raised |-> "IndexError"]
                      ELSE [target |-> rec[Len(rec)], raised |-> "None"]

\* faulty variant: the comparison of line 156 as >=
MatchChannel_continue_learning_ge(crit, self, mdl) ==
    LET obj == crit[self]
        res == MatchChannel_resolve(obj, mdl)
        crit1 == [crit EXCEPT ![self].target = res.target]
        channels == mdl.monitor.channels
    IN  IF res.raised # "None" THEN Outcome(crit, self, res.raised, None)
        ELSE IF obj.channel_name \notin DOMAIN channels
        THEN Outcome(crit1, self, "KeyError", None)
        ELSE LET rec == channels[obj.channel_name].val_record
             IN  IF Len(rec) = 0
                 THEN Outcome(crit1, self, "IndexError", None)
                 ELSE Outcome(crit1, self,
                              PyBool(~FLt(rec[Len(rec)], res.target)),
                              rec[Len(rec)])

MatchChannel_continue_learning(crit, self, mdl) ==
    LET obj == crit[self]
        res == MatchChannel_resolve(obj, mdl)
        crit1 == [crit EXCEPT ![self].target = res.target]
        channels == mdl.monitor.channels
    IN  IF res.raised # "None" THEN Outcome(crit, self, res.raised, None)
        ELSE IF obj.channel_name \notin DOMAIN channels
        THEN Outcome(crit1, self, "KeyError", None)
        ELSE LET rec == channels[obj.channel_name].val_record
             IN  IF Len(rec) = 0
                 THEN Outcome(crit1, self, "IndexError", None)
                 ELSE Outcome(crit1, self,
                              PyBool(FGt(rec[Len(rec)], res.target)),
                              rec[Len(rec)])

\* faulty variant: the comparison of line 182 as >=
ChannelTarget_continue_learning_ge(crit, self, mdl) ==
    LET obj == crit[self]
        channels == mdl.monitor.channels
    IN  IF obj.channel_name \notin DOMAIN channels
        THEN Outcome(crit, self, "KeyError", None)
        ELSE LET rec == channels[obj.channel_name].val_record
             IN  IF Len(rec) = 0
                 THEN Outcome(crit, self, "IndexError", None)
                 ELSE Outcome(crit, self,
                              PyBool(~FLt(rec[Len(rec)], obj.target)),
                              rec[Len(rec)])

\* faulty variant: the value read is kept as the target of later calls
ChannelTarget_continue_learning_keep(crit, self, mdl) ==
    LET obj == crit[self]
        channels == mdl.monitor.channels
    IN  IF obj.channel_name \notin DOMAIN channels
        THEN Outcome(crit, self, "KeyError", None)
        ELSE LET rec == channels[obj.channel_name].val_record
             IN  IF Len(rec) = 0
                 THEN Outcome(crit, self, "IndexError", None)
                 ELSE Outcome([crit EXCEPT ![self].target = rec[Len(rec)]],
                              self, PyBool(FGt(rec[Len(rec)], obj.target)),
                              rec[Len(rec)])

ChannelTarget_continue_learning(crit, self, mdl) ==
    LET obj == crit[self]
        channels == mdl.monitor.channels
    IN  IF obj.channel_name \notin DOMAIN channels
        THEN Outcome(crit, self, "KeyError", None)
        ELSE LET rec == channels[obj.channel_name].val_record
             IN  IF Len(rec) = 0
                 THEN Outcome(crit, self, "IndexError", None)
                 ELSE Outcome(crit, self,
                              PyBool(FGt(rec[Len(rec)], obj.target)),
                              rec[Len(rec)])

ChannelInf_continue_learning(crit, self, mdl) ==
    LET obj == crit[self]
        channels == mdl.monitor.channels
    IN  IF obj.channel_name \notin DOMAIN channels
        THEN Outcome(crit, self, "KeyError", None)
        ELSE LET rec == channels[obj.channel_name].val_record
             IN  IF Len(rec) = 0
                 THEN Outcome(crit, self, "IndexError", None)
                 ELSE Outcome(crit, self, PyBool(isinf(rec[Len(rec)])),
                              rec[Len(rec)])

RECURSIVE continue_learning(_, _, _)
RECURSIVE py_all(_, _, _, _)
RECURSIVE py_any(_, _, _, _)

\* all(c.continue_learning(model) for c in ids): the generator is consumed
\* until the first result that is not true; an exception ends it as well
py_all(crit, ids, mdl, log) ==
    IF ids = <<>> THEN [criteria |-> crit, rval |-> "True", log |-> log]
    ELSE LET r == continue_learning(crit, Head(ids), mdl)
         IN  IF r.rval = "True"
             THEN py_all(r.criteria, Tail(ids), mdl, log \o r.log)
             ELSE [criteria |-> r.criteria, rval |-> r.rval,
                   log |-> log \o r.log]

\* any(c.continue_learning(model) for c in ids): the generator is consumed
\* until the first result that is true; an exception ends it as well
py_any(crit, ids, mdl, log) ==
    IF ids = <<>> THEN [criteria |-> crit, rval |-> "False", log |-> log]
    ELSE LET r == continue_learning(crit, Head(ids), mdl)
         IN  IF r.rval = "False"
             THEN py_any(r.criteria, Tail(ids), mdl, log \o r.log)
             ELSE [criteria |-> r.criteria, rval |-> r.rval,
                   log |-> log \o r.log]

\* faulty variant: the children are combined with any() as in Or
And_continue_learning_any(crit, self, mdl) ==
    LET r == py_any(crit, crit[self]._criteria, mdl, <<>>)
    IN  [criteria |-> r.criteria, rval |-> r.rval,
         log |-> Append(r.log, Entry(self, r.rval, None))]

And_continue_learning(crit, self, mdl) ==
    LET r == py_all(crit, crit[self]._criteria, mdl, <<>>)
    IN  [criteria |-> r.criteria, rval |-> r.rval,
         log |-> Append(r.log, Entry(self, r.rval, None))]

Or_continue_learning(crit, self, mdl) ==
    LET r == py_any(crit, crit[self]._criteria, mdl, <<>>)
    IN  [criteria |-> r.criteria, rval |-> r.rval,
         log |-> Append(r.log, Entry(self, r.rval, None))]

\* method dispatch on the class of self; the base class raises
continue_learning(crit, self, mdl) ==
    CASE crit[self].cls = "EpochCounter" ->
             EpochCounter_continue_learning(crit, self, mdl)
      [] crit[self].cls = "MonitorBased" ->
             MonitorBased_continue_learning(crit, self, mdl)
      [] crit[self].cls = "MatchChannel" ->
             MatchChannel_continue_learning(crit, self, mdl)
      [] crit[self].cls = "ChannelTarget" ->
             ChannelTarget_continue_learning(crit, self, mdl)
      [] crit[self].cls = "ChannelInf" ->
             ChannelInf_continue_learning(crit, self, mdl)
      [] crit[self].cls = "And" -> And_continue_learning(crit, self, mdl)
      [] crit[self].cls = "Or" -> Or_continue_learning(crit, self, mdl)
      [] OTHER -> Outcome(crit, self, "NotImplementedError", None)

\* ----------------------------------------------------------------- bounds

\* longest val_record a channel of the current run gets
MaxRecord == 2
\* longest val_record a channel of the previous run gets
MaxPrevRecord == 2
\* number of top-level continue_learning calls
MaxCalls == 4
\* largest max_epochs an EpochCounter is built with
MaxEpochs == 3
\* largest N a MonitorBased is built with
MaxN == 2

\* channel values the monitor records
Values == {Fin(-1), Fin(0), Fin(1), Fin(2), inf, neg_inf, nan}
FiniteValues == {Fin(-1), Fin(0), Fin(1), Fin(2)}
\* prop_decrease arguments
PropDecreases == {Frac(1, 100), Frac(1, 2)}
\* target arguments of ChannelTarget
Targets == {0, 1}

\* --------------------------------------------------------------- the model

Channel(rec) == [val_record |-> rec]

Monitor(names) == [channels |-> [c \in names |-> Channel(<<>>)]]

\* v[-1] of a channel's record
Latest(mdl, attr, name) ==
    LET rec == mdl[attr].channels[name].val_record IN rec[Len(rec)]

HasLatest(mdl, attr, name) ==
    /\ attr \in DOMAIN mdl
    /\ name \in DOMAIN mdl[attr].channels
    /\ Len(mdl[attr].channels[name].val_record) > 0

\* ----------------------------------------------------------------- actions

\* the monitor of the current run records a value of channel name
Record(name, S, max) ==
    /\ name \in DOMAIN model.monitor.channels
    /\ Len(model.monitor.channels[name].val_record) < max
    /\ \E v \in S :
          model' = [model EXCEPT
                       !.monitor.channels[name].val_record = Append(@, v)]
    /\ UNCHANGED <<criteria, root, hist, last>>

\* the monitor of a previous run, kept as attribute attr of the model,
\* records a value of channel name
PrevRecord(attr, name, S) ==
    /\ attr \in DOMAIN model
    /\ name \in DOMAIN model[attr].channels
    /\ Len(model[attr].channels[name].val_record) < MaxPrevRecord
    /\ \E v \in S :
          model' = [model EXCEPT
                       ![attr].channels[name].val_record = Append(@, v)]
    /\ UNCHANGED <<criteria, root, hist, last>>

\* attribute attr of the model is set to the monitor of another finished run
SetPrevMonitor(attr, name, S) ==
    /\ attr \in DOMAIN model
    /\ \E v \in S :
          /\ Latest(model, attr, name) # v
          /\ model' = [model EXCEPT
                          ![attr] = [channels |-> [c \in {name} |-> Channel(<<v>>)]]]
    /\ UNCHANGED <<criteria, root, hist, last>>

\* the training algorithm calls continue_learning(model) of its criterion
Call(max) ==
    /\ Len(hist[root]) < max
    /\ \E r \in {continue_learning(criteria, root, model)} :
           /\ criteria' = r.criteria
           /\ hist' = [i \in DOMAIN hist |->
                          hist[i] \o SelectSeq(r.log, LAMBDA e : e.id = i)]
           /\ last' = [rval |-> r.rval, log |-> r.log, mdl |-> model]
    /\ UNCHANGED <<root, model>>

\* The training algorithm's loop: each epoch the monitor records a value of
\* the channel, then the criterion is called.
EpochRecorded(name) ==
    Len(model.monitor.channels[name].val_record) = Len(hist[root]) + 1

EpochDecided(name) ==
    Len(model.monitor.channels[name].val_record) = Len(hist[root])

\* what holds of the history variables before the first call
Fresh ==
    /\ root = 1
    /\ hist = [i \in DOMAIN criteria |-> <<>>]
    /\ last = [rval |-> "None", log |-> <<>>, mdl |-> model]

\* ---------------------------------------------------- EpochCounter alone

InitEpochCounter ==
    /\ \E m \in (-1) .. MaxEpochs : criteria = <<EpochCounter(m)>>
    /\ model = [monitor |-> Monitor({"objective"})]
    /\ Fresh

NextEpochCounter ==
    \/ Record("objective", Values, MaxRecord)
    \/ Call(MaxCalls)

SpecEpochCounter == InitEpochCounter /\ [][NextEpochCounter]_vars

\* C1: for every max_epochs >= 1, the i-th continue_learning call of a fresh
\* EpochCounter returns true when i < max_epochs, and false on the
\* max_epochs-th call and on every call after it.
C1_EpochCounterBudget ==
    \A id \in DOMAIN criteria :
        (criteria[id].cls = "EpochCounter" /\ criteria[id]._max_epochs >= 1)
        => \A i \in 1 .. Len(hist[id]) :
               hist[id][i].rval = PyBool(i < criteria[id]._max_epochs)

\* an EpochCounter with max_epochs >= 2 called more than max_epochs times
C1_Witness ==
    /\ criteria[root].cls = "EpochCounter"
    /\ criteria[root]._max_epochs >= 2
    /\ Len(hist[root]) > criteria[root]._max_epochs
    /\ hist[root][1].rval = "True"
    /\ last.rval = "False"

\* ------------------------------------------------------- And / Or composites

\* channel values recorded while a composite is the criterion
CompositeValues == {Fin(0), Fin(1), Fin(2)}

Orders(a, b) == {<<a, b>>, <<b, a>>}

Composite(cls, children) == IF cls = "And" THEN And(children) ELSE Or(children)

\* 1: And/Or of an EpochCounter (2) and a nested And/Or (3) of a
\* ChannelTarget (4) and a MonitorBased (5), the children in either order
InitComposite ==
    /\ \E c1 \in {"And", "Or"}, c3 \in {"And", "Or"},
          o1 \in Orders(2, 3), o3 \in Orders(4, 5),
          m \in 1 .. MaxEpochs, N \in 1 .. MaxN :
          criteria = <<Composite(c1, o1), EpochCounter(m), Composite(c3, o3),
                       ChannelTarget("objective", 1),
                       MonitorBased(Frac(1, 2), N, "objective")>>
    /\ model = [monitor |-> Monitor({"objective"})]
    /\ Fresh

NextComposite ==
    \/ Record("objective", CompositeValues, MaxRecord)
    \/ Call(MaxCalls)

SpecComposite == InitComposite /\ [][NextComposite]_vars

\* number of invocations of object id in a log
Invocations(log, id) == Cardinality({i \in DOMAIN log : log[i].id = id})

\* the children of a composite, as a set
Children(id) == {criteria[id]._criteria[i] : i \in DOMAIN criteria[id]._criteria}

\* C2: a call of And, made when the channel has a value, has invoked every
\* child exactly once, and returns true iff every child returned true on
\* that call.
C2_AndInvokesEveryChild ==
    (/\ criteria[root].cls = "And"
     /\ Returned(last.rval)
     /\ HasLatest(last.mdl, "monitor", "objective"))
    => /\ \A c \in Children(root) : Invocations(last.log, c) = 1
       /\ (last.rval = "True") <=>
              \A i \in DOMAIN last.log :
                  last.log[i].id \in Children(root) => last.log[i].rval = "True"

\* C3: a call of Or, made when the channel has a value, has invoked every
\* child exactly once, and returns true iff at least one child returned true
\* on that call.
C3_OrInvokesEveryChild ==
    (/\ criteria[root].cls = "Or"
     /\ Returned(last.rval)
     /\ HasLatest(last.mdl, "monitor", "objective"))
    => /\ \A c \in Children(root) : Invocations(last.log, c) = 1
       /\ (last.rval = "True") <=>
              \E i \in DOMAIN last.log :
                  last.log[i].id \in Children(root) /\ last.log[i].rval = "True"

\* ------------------------------------------- ChannelTarget and ChannelInf

InitChannel ==
    /\ \/ \E t \in Targets : criteria = <<ChannelTarget("objective", t)>>
       \/ criteria = <<ChannelInf("objective")>>
    /\ model = [monitor |-> Monitor({"objective"})]
    /\ Fresh

NextChannel ==
    \/ Record("objective", Values, MaxRecord)
    \/ Call(MaxCalls)

SpecChannel == InitChannel /\ [][NextChannel]_vars

\* C4: a call of ChannelInf that returns, returns true iff the latest value
\* of its channel is neither +inf nor -inf.
C4_ChannelInfStopsOnInf ==
    (criteria[root].cls = "ChannelInf" /\ Returned(last.rval))
    => ((last.rval = "True") <=>
           Latest(last.mdl, "monitor", criteria[root].channel_name)
               \notin {inf, neg_inf})

\* C10: a call of ChannelTarget that returns, returns true iff the latest
\* value of its channel is strictly greater than the target.
C10_ChannelTargetStrict ==
    (criteria[root].cls = "ChannelTarget" /\ Returned(last.rval))
    => LET v == Latest(last.mdl, "monitor", criteria[root].channel_name)
           t == criteria[root].target
       IN  /\ (last.rval = "True") <=> FGt(v, t)
           /\ (v = t \/ FLt(v, t)) => last.rval = "False"

\* a ChannelTarget called with the latest value equal to its target, after a
\* call that returned true
C10_Witness ==
    /\ criteria[root].cls = "ChannelTarget"
    /\ Len(hist[root]) >= 2
    /\ hist[root][Len(hist[root]) - 1].rval = "True"
    /\ last.rval = "False"
    /\ Latest(last.mdl, "monitor", "objective") = criteria[root].target

\* ------------------------------------------------------------ MatchChannel

\* channel values of the current and of the previous run
MatchValues == {Fin(0), Fin(1), Fin(2)}

\* the previous run has finished: its channel holds its final value
InitMatchChannel ==
    /\ criteria = <<MatchChannel("objective", "valid_objective", "prev_monitor")>>
    /\ \E p \in MatchValues :
          model = [monitor |-> Monitor({"objective"}),
                   prev_monitor |->
                       [channels |-> [c \in {"valid_objective"} |-> Channel(<<p>>)]]]
    /\ Fresh

NextMatchChannel ==
    \/ EpochDecided("objective") /\ Record("objective", MatchValues, MaxRecord)
    \/ EpochRecorded("objective") /\ Call(MaxCalls)
    \/ PrevRecord("prev_monitor", "valid_objective", MatchValues)
    \/ SetPrevMonitor("prev_monitor", "valid_objective", MatchValues)

SpecMatchChannel == InitMatchChannel /\ [][NextMatchChannel]_vars

\* C8: the step that sets the target of a MatchChannel sets it to the latest
\* value of the previous run's channel, and no step changes a target that is
\* set, whatever has happened to the previous run's monitor since.
C8_TargetResolvedOnce ==
    [][\A id \in DOMAIN criteria :
           criteria[id].cls = "MatchChannel"
           => /\ criteria[id].target # None
                 => criteria'[id].target = criteria[id].target
              /\ (criteria[id].target = None /\ criteria'[id].target # None)
                 => criteria'[id].target =
                        Latest(model, criteria[id].prev_monitor_name,
                               criteria[id].prev_channel_name)]_vars

\* a later call made when the previous run's channel no longer ends with the
\* cached target
C8_Witness ==
    /\ criteria[root].cls = "MatchChannel"
    /\ Len(hist[root]) >= 2
    /\ Returned(last.rval)
    /\ criteria[root].target # None
    /\ Latest(last.mdl, "prev_monitor", "valid_objective") # criteria[root].target

\* C9: a call of MatchChannel that returns, the first one included, returns
\* true iff the latest value of the current channel is strictly greater than
\* the cached target; on a first call the target is the latest value of the
\* previous run's channel.
C9_MatchChannelStrict ==
    (criteria[root].cls = "MatchChannel" /\ Returned(last.rval))
    => LET v == Latest(last.mdl, "monitor", criteria[root].channel_name)
       IN  /\ (last.rval = "True") <=> FGt(v, criteria[root].target)
           /\ Len(hist[root]) = 1
              => ((last.rval = "True") <=>
                     FGt(v, Latest(last.mdl, "prev_monitor", "valid_objective")))

\* a first call made with the latest value equal to the previous run's final
\* value
C9_Witness ==
    /\ criteria[root].cls = "MatchChannel"
    /\ Len(hist[root]) = 1
    /\ last.rval = "False"
    /\ criteria[root].target \in {Fin(0), Fin(1), Fin(2)}
    /\ Latest(last.mdl, "monitor", "objective") = criteria[root].target

\* ------------------------------------------------------------ MonitorBased

InitMonitorBased ==
    /\ \E p \in PropDecreases, N \in 1 .. MaxN :
          criteria = <<MonitorBased(p, N, "objective")>>
    /\ model = [monitor |-> Monitor({"objective"})]
    /\ Fresh

NextMonitorBased ==
    \/ EpochDecided("objective") /\ Record("objective", Values, MaxCalls)
    \/ EpochRecorded("objective") /\ Call(MaxCalls)

SpecMonitorBased == InitMonitorBased /\ [][NextMonitorBased]_vars

\* the invocations of object id that returned
Done(id) == SelectSeq(hist[id], LAMBDA e : Returned(e.rval))

\* the least of +inf and the values read by the first j invocations of s
RECURSIVE MinRead(_, _)
MinRead(s, j) ==
    IF j = 0 THEN inf
    ELSE LET m == MinRead(s, j - 1)
         IN  IF FLt(s[j].v, m) THEN s[j].v ELSE m

\* invocation j of s failed the test v < (1 - prop_decrease) * best value
FailedTest(obj, s, j) ==
    ~FLt(s[j].v, FMul(FSub(Fin(1), obj.prop_decrease), MinRead(s, j - 1)))

\* the number of consecutive most recent invocations of s that failed the test
TrailingFails(obj, s) ==
    Cardinality({j \in 1 .. Len(s) :
                    \A i \in j .. Len(s) : FailedTest(obj, s, i)})

\* C7: for N >= 1, after every call the countdown of a MonitorBased is N
\* minus the number of consecutive most recent calls that failed the
\* sufficient-improvement test, and the latest call returned false exactly
\* when the N most recent calls all failed it.
C7_CountdownCountsFailures ==
    \A id \in DOMAIN criteria :
        (criteria[id].cls = "MonitorBased" /\ criteria[id].N >= 1)
        => LET s == Done(id)
               k == TrailingFails(criteria[id], s)
           IN  /\ criteria[id].countdown = criteria[id].N - k
               /\ Len(s) > 0
                  => ((s[Len(s)].rval = "False") <=> k >= criteria[id].N)

\* a MonitorBased with N >= 2 that returned true, then false after N calls
\* without sufficient improvement
C7_Witness ==
    /\ criteria[root].cls = "MonitorBased"
    /\ criteria[root].N >= 2
    /\ Len(hist[root]) > criteria[root].N
    /\ hist[root][1].rval = "True"
    /\ last.rval = "False"
    /\ criteria[root].countdown = 0

\* ------------------------------------- MonitorBased with default arguments

\* prop_decrease = .01 and N = 5 of MonitorBased.__init__
DefaultPropDecrease == Frac(1, 100)
DefaultN == 5

\* number of epochs the training algorithm runs
MaxDefaultEpochs == 6

\* channel values: decreases of less and of more than one percent, zero and
\* negative values
DefaultValues ==
    {Fin(200), Fin(199), Fin(198), Fin(197), Fin(196), Fin(195),
     Fin(0), Fin(-1), Fin(-2)}

\* the values of S a non-increasing record of channel name goes on with
NotAbove(name, S) ==
    LET rec == model.monitor.channels[name].val_record
    IN  {v \in S : Len(rec) = 0 \/ ~FLt(rec[Len(rec)], v)}

InitDefault ==
    /\ \E name \in {"None", "objective"} :
          criteria = <<MonitorBased(DefaultPropDecrease, DefaultN, name)>>
    /\ model = [monitor |-> Monitor({"objective"})]
    /\ Fresh

\* the channel is fed a non-increasing sequence, one value an epoch
NextDefault ==
    \/ /\ EpochDecided("objective")
       /\ Record("objective", NotAbove("objective", DefaultValues),
                 MaxDefaultEpochs)
    \/ EpochRecorded("objective") /\ Call(MaxDefaultEpochs)

SpecDefault == InitDefault /\ [][NextDefault]_vars

StrictlyDecreasing(rec) ==
    \A i \in 2 .. Len(rec) : FLt(rec[i], rec[i - 1])

\* every value is below (1 - prop_decrease) times the value before it
SufficientlyDecreasing(rec, prop_decrease) ==
    \A i \in 2 .. Len(rec) :
        FLt(rec[i], FMul(FSub(Fin(1), prop_decrease), rec[i - 1]))

Constant(rec) == \A i \in 1 .. Len(rec) : rec[i] = rec[1]

\* C5: with N = 5 and prop_decrease = .01, every call of a fresh MonitorBased
\* that is called once per value of a strictly decreasing sequence returns
\* true.
C5_DecreasingNeverStops ==
    LET rec == model.monitor.channels["objective"].val_record
    IN  StrictlyDecreasing(rec)
        => \A i \in 1 .. Len(hist[root]) : hist[root][i].rval = "True"

\* C5, amended: with N = 5 and prop_decrease = .01, every call of a fresh
\* MonitorBased that is called once per value of a strictly decreasing
\* sequence of finite values, each below (1 - prop_decrease) times the value
\* before it, returns true.
C5_SufficientDecreaseNeverStops ==
    LET rec == model.monitor.channels["objective"].val_record
    IN  (/\ StrictlyDecreasing(rec)
         /\ SufficientlyDecreasing(rec, criteria[root].prop_decrease))
        => \A i \in 1 .. Len(hist[root]) : hist[root][i].rval = "True"

\* more calls than N, each on a value sufficiently below the one before
C5_Witness ==
    LET rec == model.monitor.channels["objective"].val_record
    IN  /\ Len(hist[root]) > criteria[root].N
        /\ Len(rec) = Len(hist[root])
        /\ StrictlyDecreasing(rec)
        /\ SufficientlyDecreasing(rec, criteria[root].prop_decrease)
        /\ last.rval = "True"

\* C6: with N = 5 and prop_decrease = .01, a fresh MonitorBased called while
\* the channel stays at one constant value returns true on calls 1 to 5 and
\* false on call 6.
C6_ConstantStopsAtSixthCall ==
    LET rec == model.monitor.channels["objective"].val_record
    IN  Constant(rec)
        => \A i \in 1 .. Len(hist[root]) :
               /\ i <= 5 => hist[root][i].rval = "True"
               /\ i = 6 => hist[root][i].rval = "False"

\* ------------------------------------------------- channel lookups that fail

\* number of top-level calls made while lookups may fail
MaxLookupCalls == 2

\* channel values recorded while lookups may fail
LookupValues == {Fin(0), Fin(1)}

\* the channels a monitor may expose
MonitorShapes == {{"objective"}, {"nll"}, {"objective", "nll"}}

\* a MonitorBased, with or without a channel name, on monitors of one or
\* two channels
InitLookupMonitorBased ==
    /\ \E name \in {"None", "objective", "nll"}, N \in 1 .. MaxN :
          criteria = <<MonitorBased(Frac(1, 2), N, name)>>
    /\ \E names \in MonitorShapes : model = [monitor |-> Monitor(names)]

\* a MatchChannel whose channel, previous channel or previous monitor may be
\* missing, the previous run's record still empty
InitLookupMatchChannel ==
    /\ \E name \in {"objective", "nll"},
          prev \in {"valid_objective", "valid_nll"},
          attr \in {"prev_monitor", "old_monitor"} :
          criteria = <<MatchChannel(name, prev, attr)>>
    /\ model = [monitor |-> Monitor({"objective"}),
                prev_monitor |-> Monitor({"valid_objective"})]

\* a ChannelTarget or ChannelInf of a channel the monitor may lack, alone or
\* as a child of an And/Or next to an EpochCounter
InitLookupLeaf ==
    /\ \E name \in {"objective", "nll"} :
          \E leaf \in {ChannelTarget(name, 0), ChannelInf(name)} :
             \/ criteria = <<leaf>>
             \/ \E c \in {"And", "Or"}, o \in Orders(2, 3), m \in 1 .. MaxEpochs :
                   criteria = <<Composite(c, o), EpochCounter(m), leaf>>
    /\ model = [monitor |-> Monitor({"objective"})]

InitLookup ==
    /\ \/ InitLookupMonitorBased
       \/ InitLookupMatchChannel
       \/ InitLookupLeaf
    /\ Fresh

NextLookup ==
    \/ \E name \in {"objective", "nll"} : Record(name, LookupValues, MaxRecord)
    \/ PrevRecord("prev_monitor", "valid_objective", LookupValues)
    \/ Call(MaxLookupCalls)

SpecLookup == InitLookup /\ [][NextLookup]_vars

\* the root is a MonitorBased built without a channel name, and has been called
UnnamedCalled ==
    /\ criteria[root].cls = "MonitorBased"
    /\ criteria[root]._channel_name = "None"
    /\ last.rval # "None"

\* C11: a call of a MonitorBased built without a channel name, on a monitor
\* of more than one channel, raises an error: it returns no boolean.
C11_UnnamedManyChannelsRaises ==
    (UnnamedCalled /\ Cardinality(DOMAIN last.mdl.monitor.channels) > 1)
    => ~Returned(last.rval)

\* C17: a call of a MonitorBased built without a channel name, on a monitor
\* whose only channel holds a value, returns a boolean computed from the
\* latest value of that channel, whatever the channel's name.
C17_UnnamedUsesOnlyChannel ==
    \A name \in {"objective", "nll"} :
        (/\ UnnamedCalled
         /\ DOMAIN last.mdl.monitor.channels = {name}
         /\ HasLatest(last.mdl, "monitor", name))
        => /\ Returned(last.rval)
           /\ last.log[1].v = Latest(last.mdl, "monitor", name)

\* object id names a channel that the monitor of mdl does not have
MissingChannel(id, mdl) ==
    \/ /\ criteria[id].cls \in {"ChannelTarget", "ChannelInf", "MatchChannel"}
       /\ criteria[id].channel_name \notin DOMAIN mdl.monitor.channels
    \/ /\ criteria[id].cls = "MonitorBased"
       /\ criteria[id]._channel_name # "None"
       /\ criteria[id]._channel_name \notin DOMAIN mdl.monitor.channels

LookupErrors == {"KeyError", "IndexError", "AttributeError"}

\* C12: a top-level call of a criterion that names a missing channel, or of
\* an And/Or with such a criterion anywhere among its children, ends in a
\* lookup error.
C12_MissingChannelRaises ==
    (/\ last.rval # "None"
     /\ \E id \in DOMAIN criteria : MissingChannel(id, last.mdl))
    => last.rval \in LookupErrors

\* ------------------------------------------------- EpochCounter, terminal

\* C13: for every integer max_epochs, once a call of an EpochCounter has
\* returned false every later call returns false, and with max_epochs <= 0
\* the first call returns false.
C13_EpochCounterTerminal ==
    \A id \in DOMAIN criteria :
        criteria[id].cls = "EpochCounter"
        => /\ \A i \in 1 .. Len(hist[id]) : \A j \in i .. Len(hist[id]) :
                  hist[id][i].rval = "False" => hist[id][j].rval = "False"
           /\ (criteria[id]._max_epochs <= 0 /\ Len(hist[id]) >= 1)
              => hist[id][1].rval = "False"

\* an EpochCounter with max_epochs <= 0 called more than once
C13_Witness ==
    /\ criteria[root].cls = "EpochCounter"
    /\ criteria[root]._max_epochs <= 0
    /\ Len(hist[root]) >= 2
    /\ hist[root][1].rval = "False"
    /\ last.rval = "False"

\* ---------------------------------- ChannelTarget and ChannelInf, stateless

\* C14: a call of a ChannelTarget or ChannelInf changes no field of the
\* criterion and no channel record, and a call made while no value has been
\* recorded since the call before it gives the same result as that call.
C14_ChannelCriteriaStateless ==
    [][(/\ criteria[root].cls \in {"ChannelTarget", "ChannelInf"}
        /\ hist' # hist)
       => /\ criteria' = criteria
          /\ model' = model
          /\ (last.rval # "None" /\ last.mdl = model)
             => last'.rval = last.rval]_vars

\* two calls that returned, made on the same single recorded value
C14_Witness ==
    /\ criteria[root].cls \in {"ChannelTarget", "ChannelInf"}
    /\ Len(hist[root]) >= 2
    /\ Returned(hist[root][Len(hist[root]) - 1].rval)
    /\ Returned(last.rval)
    /\ Len(last.mdl.monitor.channels["objective"].val_record) = 1

\* ------------------------------------------ stateful leaves of a composite

\* C15: in a composite of And and Or, after k top-level calls that all
\* returned, made when the channel has a value, every EpochCounter leaf has
\* _epochs_done = k and every MonitorBased leaf has processed k values.
C15_LeavesAdvanceEveryCall ==
    (/\ criteria[root].cls \in {"And", "Or"}
     /\ HasLatest(model, "monitor", "objective")
     /\ \A i \in 1 .. Len(hist[root]) : Returned(hist[root][i].rval))
    => \A id \in DOMAIN criteria :
           /\ criteria[id].cls = "EpochCounter"
              => criteria[id]._epochs_done = Len(hist[root])
           /\ criteria[id].cls = "MonitorBased"
              => Len(Done(id)) = Len(hist[root])

\* ------------------------------------------- MonitorBased, countdown reset

\* the test of line 106 on the value a call of the root is about to read
ResetTest ==
    FLt(Latest(model, "monitor", "objective"),
        FMul(FSub(Fin(1), criteria[root].prop_decrease),
             criteria[root].best_value))

\* C16: a MonitorBased call that resets the countdown to N (its latest value
\* is below (1 - prop_decrease) * best_value) also sets best_value to that
\* value, which is strictly below the best_value before the call.
C16_ResetUpdatesBest ==
    [][(/\ criteria[root].cls = "MonitorBased"
        /\ hist' # hist
        /\ Returned(last'.rval)
        /\ ResetTest)
       => /\ criteria'[root].countdown = criteria[root].N
          /\ FLt(Latest(model, "monitor", "objective"), criteria[root].best_value)
          /\ criteria'[root].best_value = Latest(model, "monitor", "objective")]_vars

\* ---------------------------------- MonitorBased, best_value and countdown

\* C19: after any sequence of MonitorBased calls that returned, best_value
\* is the least of +inf and the values read by those calls (it is one of them
\* and none of them is below it), and countdown is at most N.
C19_BestIsMinimum ==
    \A id \in DOMAIN criteria :
        criteria[id].cls = "MonitorBased"
        => LET s == Done(id)
               reads == {inf} \cup {s[j].v : j \in 1 .. Len(s)}
           IN  /\ criteria[id].best_value = MinRead(s, Len(s))
               /\ criteria[id].best_value \in reads
               /\ \A x \in reads : ~FLt(x, criteria[id].best_value)
               /\ criteria[id].countdown <= criteria[id].N

\* three calls: the value went down without resetting the countdown, then up
C19_Witness ==
    /\ criteria[root].cls = "MonitorBased"
    /\ Len(Done(root)) >= 3
    /\ FLt(criteria[root].best_value, Done(root)[1].v)
    /\ FLt(criteria[root].best_value, Done(root)[Len(Done(root))].v)
    /\ criteria[root].countdown < criteria[root].N

\* ------------------------------------------ state after a call that raised

\* a step in which a MonitorBased or MatchChannel root is called and the
\* call raises a lookup error
RaisingCall ==
    /\ criteria[root].cls \in {"MonitorBased", "MatchChannel"}
    /\ hist' # hist
    /\ last'.rval \in LookupErrors

\* the lookup of lines 146-149 in the previous run's monitor would succeed
PrevLookupSucceeds ==
    HasLatest(model, criteria[root].prev_monitor_name,
              criteria[root].prev_channel_name)

\* C20 as stated: a call that ends in a lookup error leaves the state of the
\* criterion as it was before the call; a MonitorBased keeps countdown and
\* best_value, a MatchChannel with an unresolved target keeps it unresolved.
C20_ErrorLeavesStateUnchanged ==
    [][RaisingCall => criteria' = criteria]_vars

\* C20, amended: a call that ends in a lookup error leaves a MonitorBased as
\* it was, and leaves a MatchChannel as it was when its target was already
\* resolved or when the lookup in the previous run's monitor raised; when
\* the target was unresolved and only the lookup of the current channel
\* raised, the target has been resolved to the previous run's latest value
\* and nothing else has changed.
C20_ErrorKeepsStateButTarget ==
    [][RaisingCall =>
         IF /\ criteria[root].cls = "MatchChannel"
            /\ criteria[root].target = None
            /\ PrevLookupSucceeds
         THEN criteria' =
                  [criteria EXCEPT ![root].target =
                       Latest(model, criteria[root].prev_monitor_name,
                              criteria[root].prev_channel_name)]
         ELSE criteria' = criteria]_vars

\* a first call of a MatchChannel raised and yet left its target resolved
C20_Witness ==
    /\ criteria[root].cls = "MatchChannel"
    /\ Len(hist[root]) = 1
    /\ last.rval \in LookupErrors
    /\ criteria[root].target # None

\* ----------------------------------- the training loop with an epoch budget

\* number of epochs the training algorithm would run if never told to stop
MaxTrainCalls == MaxEpochs + 1

\* channel values recorded by the loop: every criterion X below returns true
\* on a call that reads inf and can return false on one that reads 0
TrainValues == {Fin(0), inf}

\* the criterion X combined with the EpochCounter
OtherCriteria ==
    {ChannelTarget("objective", 0), ChannelInf("objective"),
     EpochCounter(MaxTrainCalls + 1),
     MatchChannel("objective", "valid_objective", "prev_monitor")}
    \cup {MonitorBased(Frac(1, 2), N, "objective") : N \in 1 .. MaxN}

\* 1: And of EpochCounter(m) (2) and X (3), in either order
InitTrain ==
    /\ \E o \in Orders(2, 3), m \in (-1) .. MaxEpochs, X \in OtherCriteria :
          criteria = <<And(o), EpochCounter(m), X>>
    /\ model = [monitor |-> Monitor({"objective"}),
                prev_monitor |->
                    [channels |-> [c \in {"valid_objective"} |-> Channel(<<Fin(0)>>)]]]
    /\ Fresh

\* the loop has been told to stop, or a call has raised
Halted == last.rval \notin {"None", "True"}

\* each epoch records a value, then asks the criterion; the loop ends at the
\* first result that is not true
NextTrain ==
    \/ ~Halted /\ EpochDecided("objective")
               /\ Record("objective", TrainValues, MaxTrainCalls)
    \/ ~Halted /\ EpochRecorded("objective") /\ Call(MaxTrainCalls)

\* the loop is sequential: an epoch that can run does run
SpecTrain == InitTrain /\ [][NextTrain]_vars /\ WF_vars(NextTrain)

Max(a, b) == IF a >= b THEN a ELSE b

\* C18: a training loop that calls And([EpochCounter(m), X]) or
\* And([X, EpochCounter(m)]) once per epoch and halts at the first false
\* result eventually halts, having made at most max(m, 1) calls.
C18_LoopHaltsWithinBudget ==
    <>(/\ last.rval = "False"
       /\ Len(hist[root]) <= Max(criteria[2]._max_epochs, 1))

\* the loop ran for m >= 2 epochs, X returned true every time, and the
\* EpochCounter ended it
C18_Witness ==
    /\ criteria[root].cls = "And"
    /\ criteria[2]._max_epochs >= 2
    /\ Len(hist[root]) = criteria[2]._max_epochs
    /\ Len(hist[3]) = Len(hist[root])
    /\ \A i \in 1 .. Len(hist[3]) : hist[3][i].rval = "True"
    /\ last.rval = "False"

====
